---- MODULE Spec2Model ----
(***************************************************************************)
(* Model of torch::autograd::__PySlice_Unpack                              *)
(* (torch/csrc/autograd/python_variable_indexing.h).                       *)
(*                                                                         *)
(* One call of the function is one behaviour: Init is the state on entry   *)
(* (the slice object r, the three default-constructed c10::SymInt locals), *)
(* and the actions are the three field blocks and the return statement, in *)
(* program order.  A TORCH_CHECK that fails throws: the call ends in       *)
(* pc = "failed" with the message in err and nothing returned.             *)
(***************************************************************************)
EXTENDS Integers, Sequences, FiniteSets

\* ---------------------------------------------------------------- bounds
\* Width of Py_ssize_t in bits (64 on the real platform, scaled down).
Width == 3
\* How far the Python integers of the inputs reach beyond Py_ssize_t.
Excess == 1
\* Number of distinct symbolic integers an input may mention.
NumSyms == 2

\* ------------------------------------------------------ platform integers
PY_SSIZE_T_MAX == 2 ^ (Width - 1) - 1
PY_SSIZE_T_MIN == -PY_SSIZE_T_MAX - 1
SsizeRange == PY_SSIZE_T_MIN .. PY_SSIZE_T_MAX

\* ------------------------------------------------------- Python objects
\* kind: "None", "int" (arbitrary precision), "float" (no __index__),
\* "SymInt" (an instance of torch.SymInt; conv says whether its __index__
\* conversion succeeds, val is what it then yields).
PyObj(k, v, i, c) == [kind |-> k, val |-> v, id |-> i, conv |-> c]
Py_None == PyObj("None", 0, 0, FALSE)
PyLong(n) == PyObj("int", n, 0, TRUE)
PyFloat == PyObj("float", 0, 0, FALSE)
PyLongs == {PyLong(n) : n \in (PY_SSIZE_T_MIN - Excess) .. (PY_SSIZE_T_MAX + Excess)}
PySymInts == {PyObj("SymInt", 0, i, FALSE) : i \in 1 .. NumSyms}
               \cup {PyObj("SymInt", v, i, TRUE) : v \in {0, 1}, i \in 1 .. NumSyms}
PyObjects == {Py_None, PyFloat} \cup PyLongs \cup PySymInts
PySliceObject == [start : PyObjects, stop : PyObjects, step : PyObjects]

\* py::isinstance(o, torch::get_symint_class())
isinstance_symint(o) == o.kind = "SymInt"

\* _PyEval_SliceIndex(v, &pi): 1 and *pi written on success (the value
\* clipped to Py_ssize_t), 0 and *pi untouched on failure.
ClipSsize(n) ==
  IF n > PY_SSIZE_T_MAX THEN PY_SSIZE_T_MAX
  ELSE IF n < PY_SSIZE_T_MIN THEN PY_SSIZE_T_MIN
  ELSE n
PyEval_SliceIndex(v) ==
  IF v.kind = "int" \/ (v.kind = "SymInt" /\ v.conv)
  THEN [result |-> TRUE, pi |-> ClipSsize(v.val)]
  ELSE [result |-> FALSE, pi |-> 0]

\* ------------------------------------------------------------ c10::SymInt
\* indet marks an integer that was read from an uninitialized Py_ssize_t.
SymInt(n) == [sym |-> FALSE, val |-> n, id |-> 0, indet |-> FALSE]
SymIntIndet(n) == [sym |-> FALSE, val |-> n, id |-> 0, indet |-> TRUE]
SymNode(i) == [sym |-> TRUE, val |-> 0, id |-> i, indet |-> FALSE]
is_symbolic(s) == s.sym
expect_int(s) == s.val
\* new_obj.cast<c10::SymInt>()
cast_SymInt(o) == SymNode(o.id)

\* ---------------------------------------------------------- TORCH_CHECK messages
ErrStepSymint == "Slicing step can't be symint"
ErrStepParse == "Failed parsing slicing step to integer"
ErrStepZero == "Slicing step size can't be zero"
ErrStartSymStep == "Can't use symbolic step size to determine slicing start index"
ErrStartParse == "Failed parsing slicing start index to integer"
ErrStopSymStep == "Can't use symbolic step size to determine slicing stop index"
ErrStopParse == "Failed parsing slicing stop index to integer"
NoError == "none"

\* The error kinds of the design, by message.
UnsupportedSymbolicStep == {ErrStepSymint}
ZeroStepError == {ErrStepZero}
IndexConversionError == {ErrStepParse, ErrStartParse, ErrStopParse}
SymbolicStepDefaultError == {ErrStartSymStep, ErrStopSymStep}

VARIABLES r, pc, start_sym, stop_sym, step_sym, err, ret
vars == <<r, pc, start_sym, stop_sym, step_sym, err, ret>>

\* ------------------------------------------------------- the checks of the code
\* line 33-35: TORCH_CHECK(py::isinstance(r->step, symint_class), ...)
StepTypeCheck(o) == isinstance_symint(o)
\* line 39: TORCH_CHECK(!result, ...)
StepParseCheck(result) == ~result
\* line 40: TORCH_CHECK(step != 0, ...)
StepZeroCheck(step) == step # 0
\* line 47-49: the clamp of -PY_SSIZE_T_MAX-1
ClampStep(step) == IF step < -PY_SSIZE_T_MAX THEN -PY_SSIZE_T_MAX ELSE step
\* line 57-59 and 73-75: TORCH_CHECK(!step_sym.is_symbolic(), ...)
DefaultCheck_mut(s) == is_symbolic(s)
DefaultCheck(s) == ~is_symbolic(s)
\* line 60: step_sym.expect_int() < 0 ? PY_SSIZE_T_MAX : 0
StartDefault_mut(s) == IF expect_int(s) > 0 THEN PY_SSIZE_T_MAX ELSE 0
StartDefault(s) == IF expect_int(s) < 0 THEN PY_SSIZE_T_MAX ELSE 0
\* line 76-77: step_sym.expect_int() < 0 ? PY_SSIZE_T_MIN : PY_SSIZE_T_MAX
StopDefault(s) == IF expect_int(s) < 0 THEN PY_SSIZE_T_MIN ELSE PY_SSIZE_T_MAX
\* line 65 and 82: TORCH_CHECK(result, ...)
BoundParseCheck(result) == result

\* ------------------------------------------------------------------ Init
\* line 21-28: entry, the three locals default-constructed (SymInt() is 0).
Init ==
  /\ r \in PySliceObject
  /\ pc = "step"
  /\ start_sym = SymInt(0)
  /\ stop_sym = SymInt(0)
  /\ step_sym = SymInt(0)
  /\ err = NoError
  /\ ret = <<>>

Throw(msg) ==
  /\ pc' = "failed"
  /\ err' = msg
  /\ UNCHANGED <<r, start_sym, stop_sym, step_sym, ret>>

\* ------------------------------------------------------- line 30-51: step
\* When _PyEval_SliceIndex fails it leaves the local `Py_ssize_t step`
\* unwritten; line 40 onwards then reads an uninitialized variable.  Its
\* address was passed to an external function, so the build reloads it from
\* its stack slot once: the value is arbitrary but the same in lines 40-50.
StepField ==
  /\ pc = "step"
  /\ IF r.step = Py_None
     THEN /\ step_sym' = SymInt(1)
          /\ pc' = "start"
          /\ UNCHANGED <<r, start_sym, stop_sym, err, ret>>
     ELSE IF ~StepTypeCheck(r.step)
     THEN Throw(ErrStepSymint)
     ELSE LET res == PyEval_SliceIndex(r.step) IN
          IF ~StepParseCheck(res.result)
          THEN Throw(ErrStepParse)
          ELSE \E garbage \in SsizeRange :
                 LET step == IF res.result THEN res.pi ELSE garbage IN
                 IF ~StepZeroCheck(step)
                 THEN Throw(ErrStepZero)
                 ELSE /\ step_sym' = IF res.result THEN SymInt(ClampStep(step))
                                     ELSE SymIntIndet(ClampStep(step))
                      /\ pc' = "start"
                      /\ UNCHANGED <<r, start_sym, stop_sym, err, ret>>

\* ------------------------------------------------------ line 53-67: start
StartField ==
  /\ pc = "start"
  /\ IF isinstance_symint(r.start)
     THEN /\ start_sym' = cast_SymInt(r.start)
          /\ pc' = "stop"
          /\ UNCHANGED <<r, stop_sym, step_sym, err, ret>>
     ELSE IF r.start = Py_None
     THEN IF ~DefaultCheck(step_sym)
          THEN Throw(ErrStartSymStep)
          ELSE /\ start_sym' = SymInt(StartDefault(step_sym))
               /\ pc' = "stop"
               /\ UNCHANGED <<r, stop_sym, step_sym, err, ret>>
     ELSE LET res == PyEval_SliceIndex(r.start) IN
          IF ~BoundParseCheck(res.result)
          THEN Throw(ErrStartParse)
          ELSE /\ start_sym' = SymInt(res.pi)
               /\ pc' = "stop"
               /\ UNCHANGED <<r, stop_sym, step_sym, err, ret>>

\* ------------------------------------------------------- line 69-84: stop
StopField ==
  /\ pc = "stop"
  /\ IF isinstance_symint(r.stop)
     THEN /\ stop_sym' = cast_SymInt(r.stop)
          /\ pc' = "return"
          /\ UNCHANGED <<r, start_sym, step_sym, err, ret>>
     ELSE IF r.stop = Py_None
     THEN IF ~DefaultCheck(step_sym)
          THEN Throw(ErrStopSymStep)
          ELSE /\ stop_sym' = SymInt(StopDefault(step_sym))
               /\ pc' = "return"
               /\ UNCHANGED <<r, start_sym, step_sym, err, ret>>
     ELSE LET res == PyEval_SliceIndex(r.stop) IN
          IF ~BoundParseCheck(res.result)
          THEN Throw(ErrStopParse)
          ELSE /\ stop_sym' = SymInt(res.pi)
               /\ pc' = "return"
               /\ UNCHANGED <<r, start_sym, step_sym, err, ret>>

\* ----------------------------------------------------------- line 86: return
Return ==
  /\ pc = "return"
  /\ ret' = <<[start |-> start_sym, stop |-> stop_sym, step |-> step_sym]>>
  /\ pc' = "done"
  /\ UNCHANGED <<r, start_sym, stop_sym, step_sym, err>>

Next == StepField \/ StartField \/ StopField \/ Return

Spec == Init /\ [][Next]_vars

\* ------------------------------------------------------------- vocabulary
Returned == pc = "done"
Failed == pc = "failed"
Finished == Returned \/ Failed
Result == ret[1]
\* a concrete integer of the data model: a Python int within Py_ssize_t
IsConcrete(o) == o.kind = "int" /\ o.val \in SsizeRange
IsSymbolic(o) == o.kind = "SymInt"
IsAbsent(o) == o = Py_None

TypeOK ==
  /\ r \in PySliceObject
  /\ pc \in {"step", "start", "stop", "return", "done", "failed"}
  /\ Len(ret) \in {0, 1}
  /\ (Len(ret) = 1) = (pc = "done")
  /\ (err # NoError) = (pc = "failed")

\* A field the claims call valid: absent, a concrete integer or symbolic.
IsValidBound(o) == IsAbsent(o) \/ IsConcrete(o) \/ IsSymbolic(o)

\* ------------------------------------------------------------------ claims

\* C1: with a concrete integer step and start and stop both absent, step 0
\* never succeeds, and a nonzero step s succeeds with start = 0 and
\* stop = MAX_INT when s > 0, start = MAX_INT and stop = MIN_INT when s < 0,
\* and the returned step equal to s (for s other than MIN_INT).
C1_ConcreteStepDefaults ==
  (Finished /\ IsConcrete(r.step) /\ IsAbsent(r.start) /\ IsAbsent(r.stop)) =>
    IF r.step.val = 0
    THEN Failed
    ELSE /\ Returned
         /\ Result.start = SymInt(IF r.step.val > 0 THEN 0 ELSE PY_SSIZE_T_MAX)
         /\ Result.stop = SymInt(IF r.step.val > 0 THEN PY_SSIZE_T_MAX ELSE PY_SSIZE_T_MIN)
         /\ (r.step.val # PY_SSIZE_T_MIN => Result.step = SymInt(r.step.val))

\* C2: with the step absent, unpack returns step = concrete 1, an absent
\* start becomes 0, an absent stop becomes MAX_INT, and a concrete start or
\* stop is returned as given; with such start and stop the call never fails.
C2_AbsentStepDefaults ==
  IsAbsent(r.step) =>
    /\ ((IsAbsent(r.start) \/ IsConcrete(r.start)) /\ (IsAbsent(r.stop) \/ IsConcrete(r.stop))
          => ~Failed)
    /\ Returned =>
         /\ Result.step = SymInt(1)
         /\ (IsAbsent(r.start) => Result.start = SymInt(0))
         /\ (IsAbsent(r.stop) => Result.stop = SymInt(PY_SSIZE_T_MAX))
         /\ (IsConcrete(r.start) => Result.start = SymInt(r.start.val))
         /\ (IsConcrete(r.stop) => Result.stop = SymInt(r.stop.val))

\* C2 witness: unpack((None, None, None)) has returned (0, MAX_INT, 1).
C2_Witness ==
  /\ Returned
  /\ r = [start |-> Py_None, stop |-> Py_None, step |-> Py_None]
  /\ Result = [start |-> SymInt(0), stop |-> SymInt(PY_SSIZE_T_MAX), step |-> SymInt(1)]

\* C3: a concrete step equal to 0 always fails with ZeroStepError, whatever
\* start and stop are.
C3_ZeroStepFails ==
  (Finished /\ r.step = PyLong(0)) => (Failed /\ err \in ZeroStepError)

\* C4: a symbolic step always fails with UnsupportedSymbolicStep, whatever
\* start and stop are; it never returns and never fails otherwise.
C4_SymbolicStepFails ==
  (Finished /\ IsSymbolic(r.step)) => (Failed /\ err \in UnsupportedSymbolicStep)

\* C5: with a symbolic start and/or stop and a nonzero concrete step, unpack
\* succeeds, returns each symbolic field as the same symbolic value and the
\* concrete step as the step.
C5_SymbolicBoundsPassThrough ==
  (/\ Finished
   /\ IsConcrete(r.step) /\ r.step.val # 0
   /\ IsValidBound(r.start) /\ IsValidBound(r.stop)
   /\ (IsSymbolic(r.start) \/ IsSymbolic(r.stop))) =>
    /\ Returned
    /\ (IsSymbolic(r.start) => Result.start = SymNode(r.start.id))
    /\ (IsSymbolic(r.stop) => Result.stop = SymNode(r.stop.id))
    /\ Result.step = SymInt(ClampStep(r.step.val))

\* C6: a concrete step equal to MIN_INT is accepted and normalized to
\* -MAX_INT (unpack((None, None, MIN_INT)) succeeds with step -MAX_INT), and
\* every returned concrete step lies in -MAX_INT .. MAX_INT.
C6_MinStepClamped ==
  /\ (Finished /\ r.step = PyLong(PY_SSIZE_T_MIN) /\ IsAbsent(r.start) /\ IsAbsent(r.stop)) =>
       (Returned /\ Result.step = SymInt(-PY_SSIZE_T_MAX))
  /\ (Returned /\ ~is_symbolic(Result.step)) =>
       Result.step.val \in (-PY_SSIZE_T_MAX) .. PY_SSIZE_T_MAX

\* C7: a provided step that is neither absent nor symbolic and cannot be
\* converted to an integer index (and likewise a start or stop, once the
\* fields before it were accepted) makes unpack fail with
\* IndexConversionError; conversely a field whose integer-index conversion
\* succeeds never causes an IndexConversionError.
C7_ConversionErrors ==
  /\ (Finished /\ r.step = PyFloat) => (Failed /\ err \in IndexConversionError)
  /\ (Finished /\ IsAbsent(r.step) /\ r.start = PyFloat) =>
       (Failed /\ err \in IndexConversionError)
  /\ (Finished /\ IsAbsent(r.step) /\ IsValidBound(r.start) /\ r.stop = PyFloat) =>
       (Failed /\ err \in IndexConversionError)
  /\ (err = ErrStepParse => ~PyEval_SliceIndex(r.step).result)
  /\ (err = ErrStartParse => ~PyEval_SliceIndex(r.start).result)
  /\ (err = ErrStopParse => ~PyEval_SliceIndex(r.stop).result)

\* C8: whenever unpack returns, start, stop and step are all resolved and
\* well-defined values (never absent or unset) and step is never the
\* concrete 0; whenever a check fails, nothing is returned.
C8_OutputInvariant ==
  /\ Returned =>
       /\ ~Result.start.indet /\ ~Result.stop.indet /\ ~Result.step.indet
       /\ (is_symbolic(Result.step) \/ Result.step.val # 0)
  /\ Failed => ret = <<>>

\* C9: a triple with concrete start, concrete stop and concrete nonzero step
\* that is already normalized is returned by unpack exactly as it is.
C9_Idempotent ==
  (/\ Finished
   /\ IsConcrete(r.start) /\ IsConcrete(r.stop) /\ IsConcrete(r.step)
   /\ r.step.val # 0 /\ r.step.val >= -PY_SSIZE_T_MAX) =>
    /\ Returned
    /\ Result = [start |-> SymInt(r.start.val), stop |-> SymInt(r.stop.val),
                 step |-> SymInt(r.step.val)]

\* C10 (as stated): an absent start or stop with a symbolic step fails with
\* SymbolicStepDefaultError.
C10_SymbolicStepDefaultFails ==
  (Finished /\ IsSymbolic(r.step) /\ (IsAbsent(r.start) \/ IsAbsent(r.stop))) =>
    (Failed /\ err \in SymbolicStepDefaultError)

\* C10 (amended): unpack never fails with SymbolicStepDefaultError, whatever
\* the step is and even when start or stop is absent: the step the defaults
\* are computed from is always a concrete integer.
C10_NoSymbolicStepDefaultError ==
  /\ err \notin SymbolicStepDefaultError
  /\ (pc \in {"start", "stop", "return", "done"} /\ (IsAbsent(r.start) \/ IsAbsent(r.stop)))
       => ~is_symbolic(step_sym)

\* C10 witness: a call with a symbolic step and an absent start and stop has
\* gone through both defaults and returned.
C10_Witness ==
  /\ Returned
  /\ IsSymbolic(r.step) /\ IsAbsent(r.start) /\ IsAbsent(r.stop)
  /\ Result.start \in {SymInt(0), SymInt(PY_SSIZE_T_MAX)}

====
